---- MODULE Spec2Model ----
(***************************************************************************)
(* A model of the dotfiles deployment tool: deploy.py (TemplateFile and    *)
(* the interactive review loop of main) and diff.py (diff, pretty_print).  *)
(*                                                                         *)
(* Text is a sequence of one-character strings.  The characters are the    *)
(* letters "a", "b", "c" and the named control characters below.           *)
(***************************************************************************)
EXTENDS Naturals, Integers, Sequences, FiniteSets, TLC

LF == "LF"   \* "\n"
CR == "CR"   \* "\r"
SP == "SP"   \* " "

\* Bounds of the model.
MaxLen == 2      \* longest text the has_diff inputs are drawn from
MaxItems == 3    \* most templates in the discovered tree

(***************************************************************************)
(* Python's str and pathlib text I/O, as far as the program uses them.     *)
(***************************************************************************)

\* str.isspace() of one character.
IsSpace(c) == c \in {SP, LF, CR}

RECURSIVE LStrip(_)
LStrip(s) == IF s # <<>> /\ IsSpace(Head(s)) THEN LStrip(Tail(s)) ELSE s

RECURSIVE RStrip(_)
RStrip(s) ==
    IF s # <<>> /\ IsSpace(s[Len(s)]) THEN RStrip(SubSeq(s, 1, Len(s) - 1)) ELSE s

\* str.strip(): surrounding whitespace removed.
Strip(s) == RStrip(LStrip(s))

\* Text-mode read (newline=None): "\r\n" and a lone "\r" are read as "\n".
RECURSIVE UniversalNewlines(_)
UniversalNewlines(s) ==
    IF s = <<>> THEN <<>>
    ELSE IF Head(s) = CR
         THEN IF Len(s) >= 2 /\ s[2] = LF
              THEN <<LF>> \o UniversalNewlines(SubSeq(s, 3, Len(s)))
              ELSE <<LF>> \o UniversalNewlines(Tail(s))
         ELSE <<Head(s)>> \o UniversalNewlines(Tail(s))

\* os.linesep on the POSIX hosts the tool is deployed to.
LineSep == <<LF>>

\* Text-mode write (newline=None): every "\n" is written as os.linesep.
RECURSIVE WriteNewlines(_)
WriteNewlines(s) ==
    IF s = <<>> THEN <<>>
    ELSE (IF Head(s) = LF THEN LineSep ELSE <<Head(s)>>) \o WriteNewlines(Tail(s))

(***************************************************************************)
(* The filesystem under output_dir.  A destination is                      *)
(*   [kind |-> "missing" | "file", text |-> its bytes, perm |-> ...]       *)
(* perm "rw": readable and writable; "ro": readable, a write raises        *)
(* PermissionError; "locked": a read and a write both raise it.            *)
(***************************************************************************)
Missing(perm) == [kind |-> "missing", text |-> <<>>, perm |-> perm]
File(text, perm) == [kind |-> "file", text |-> text, perm |-> perm]

\* pathlib.Path.exists()
Exists(d) == d.kind # "missing"

\* pathlib.Path.read_text(): the text, or the exception it raises.
ReadText(d) ==
    IF d.kind = "missing" THEN [exc |-> "FileNotFoundError", text |-> <<>>]
    ELSE IF d.perm = "locked" THEN [exc |-> "PermissionError", text |-> <<>>]
    ELSE [exc |-> "none", text |-> UniversalNewlines(d.text)]

\* pathlib.Path.write_text(): the file afterwards, or the exception.
WriteText(d, text) ==
    IF d.perm # "rw" THEN [exc |-> "PermissionError", dest |-> d]
    ELSE [exc |-> "none", dest |-> File(WriteNewlines(text), "rw")]

(***************************************************************************)
(* TemplateFile.  A loaded jinja2.Template is [filename, fault, out]: out  *)
(* is what template.render() returns, fault "undefined" makes render()     *)
(* raise UndefinedError (StrictUndefined).                                 *)
(***************************************************************************)
\* Optional[str]: None, or a str.
None == [some |-> FALSE, text |-> <<>>]
Some(text) == [some |-> TRUE, text |-> text]

Template(filename, fault, out) == [filename |-> filename, fault |-> fault, out |-> out]

\* TemplateFile.render(): the raw render plus one "\n", or the exception.
Render(template) ==
    IF template.fault = "undefined" THEN [exc |-> "UndefinedError", text |-> <<>>]
    ELSE [exc |-> "none", text |-> template.out \o <<LF>>]

\* TemplateFile.read_existing(): only FileNotFoundError becomes None.
ReadExisting(d) ==
    LET r == ReadText(d)
    IN  IF r.exc = "FileNotFoundError" THEN [exc |-> "none", val |-> None]
        ELSE [exc |-> r.exc, val |-> Some(r.text)]

\* Mutant of HasDiff: an existing empty file counts as no file.
HasDiffStripExisting(template, d) ==
    LET r == Render(template)
        e == ReadExisting(d)
    IN  IF r.exc # "none" THEN [exc |-> r.exc, val |-> FALSE]
        ELSE IF Strip(r.text) = <<>> /\ (~Exists(d) \/ d.text = <<>>)
             THEN [exc |-> "none", val |-> FALSE]
        ELSE IF e.exc # "none" THEN [exc |-> e.exc, val |-> FALSE]
        ELSE [exc |-> "none", val |-> e.val # Some(r.text)]

\* Mutant of HasDiff: the special case of line 74 is left out.
HasDiffNoSpecialCase(template, d) ==
    LET r == Render(template)
        e == ReadExisting(d)
    IN  IF r.exc # "none" THEN [exc |-> r.exc, val |-> FALSE]
        ELSE IF e.exc # "none" THEN [exc |-> e.exc, val |-> FALSE]
        ELSE [exc |-> "none", val |-> e.val # Some(r.text)]

\* TemplateFile.has_diff(): [exc, val], val the boolean returned.
HasDiff(template, d) ==
    LET r == Render(template)
        e == ReadExisting(d)
    IN  IF r.exc # "none" THEN [exc |-> r.exc, val |-> FALSE]
        ELSE IF Strip(r.text) = <<>> /\ ~Exists(d)
             THEN [exc |-> "none", val |-> FALSE]
        ELSE IF e.exc # "none" THEN [exc |-> e.exc, val |-> FALSE]
        ELSE [exc |-> "none", val |-> e.val # Some(r.text)]

\* TemplateFile.write()
Write(template, d) ==
    LET r == Render(template)
    IN  IF r.exc # "none" THEN [exc |-> r.exc, dest |-> d]
        ELSE WriteText(d, r.text)

(***************************************************************************)
(* diff.py.  difflib.ndiff is modelled as Python 3.11's Differ computes    *)
(* it.  Indices are Python's: 0-based, ranges half-open.                   *)
(***************************************************************************)
TAB == "TAB"  \* "\t"

At(s, i) == s[i + 1]

\* range(lo, hi)
Range(lo, hi) == {k \in lo..(hi - 1) : TRUE}

Max(S) == CHOOSE x \in S : \A y \in S : y <= x
Min(S) == CHOOSE x \in S : \A y \in S : x <= y

\* sorted() of a set of integers.
RECURSIVE Sorted(_)
Sorted(S) == IF S = {} THEN <<>> ELSE <<Min(S)>> \o Sorted(S \ {Min(S)})

\* str.splitlines(): lines end at "\n", "\r" or "\r\n"; a final line
\* terminator opens no further line.
RECURSIVE SplitLinesFrom(_, _)
SplitLinesFrom(s, line) ==
    IF s = <<>> THEN (IF line = <<>> THEN <<>> ELSE <<line>>)
    ELSE IF Head(s) = CR /\ Len(s) >= 2 /\ s[2] = LF
         THEN <<line>> \o SplitLinesFrom(SubSeq(s, 3, Len(s)), <<>>)
    ELSE IF Head(s) \in {LF, CR}
         THEN <<line>> \o SplitLinesFrom(Tail(s), <<>>)
    ELSE SplitLinesFrom(Tail(s), Append(line, Head(s)))

SplitLines(s) == SplitLinesFrom(s, <<>>)

\* difflib.IS_CHARACTER_JUNK
IsCharacterJunk(c) == c \in {SP, TAB}

\* SequenceMatcher.bjunk: the elements of b that are junk.
BJunk(b, isjunk) == {b[n] : n \in {n \in 1..Len(b) : isjunk /\ IsCharacterJunk(b[n])}}

\* j2len of find_longest_match: the length of the longest junk-free match
\* ending with a[i] and b[j], inside a[alo:] and b[blo:].
RECURSIVE J2Len(_, _, _, _, _, _, _)
J2Len(a, b, i, j, alo, blo, junk) ==
    IF i < alo \/ j < blo THEN 0
    ELSE IF At(a, i) # At(b, j) \/ At(b, j) \in junk THEN 0
    ELSE 1 + J2Len(a, b, i - 1, j - 1, alo, blo, junk)

\* The while loops of find_longest_match that extend a match m backwards
\* and forwards over equal elements that are junk (wantJunk) or are not.
RECURSIVE ExtendBack(_, _, _, _, _, _, _)
ExtendBack(a, b, alo, blo, m, junk, wantJunk) ==
    IF m.i > alo /\ m.j > blo
       /\ (At(b, m.j - 1) \in junk) = wantJunk
       /\ At(a, m.i - 1) = At(b, m.j - 1)
    THEN ExtendBack(a, b, alo, blo, [i |-> m.i - 1, j |-> m.j - 1, k |-> m.k + 1],
                    junk, wantJunk)
    ELSE m

RECURSIVE ExtendForward(_, _, _, _, _, _, _)
ExtendForward(a, b, ahi, bhi, m, junk, wantJunk) ==
    IF m.i + m.k < ahi /\ m.j + m.k < bhi
       /\ (At(b, m.j + m.k) \in junk) = wantJunk
       /\ At(a, m.i + m.k) = At(b, m.j + m.k)
    THEN ExtendForward(a, b, ahi, bhi, [m EXCEPT !.k = m.k + 1], junk, wantJunk)
    ELSE m

\* bestsize after the two for loops of find_longest_match over pairs (i, j).
BestSize(a, b, alo, blo, junk, pairs) ==
    IF pairs = {} THEN 0
    ELSE Max({J2Len(a, b, p[1], p[2], alo, blo, junk) : p \in pairs})

\* The first of the pairs in S in the order of two nested loops, the
\* component outer outside.
LoopFirst(S, outer, inner) ==
    CHOOSE p \in S : \A q \in S :
        p[outer] < q[outer] \/ (p[outer] = q[outer] /\ p[inner] <= q[inner])

\* besti, bestj, bestsize after the for loops: the first match of the
\* greatest size the loops come to (k > bestsize is strict).
JunkFreeMatch(a, b, alo, blo, junk, pairs, bestsize) ==
    IF bestsize = 0 THEN [i |-> alo, j |-> blo, k |-> 0]
    ELSE [i |-> LoopFirst({p \in pairs :
                              J2Len(a, b, p[1], p[2], alo, blo, junk) = bestsize},
                          1, 2)[1] - bestsize + 1,
          j |-> LoopFirst({p \in pairs :
                              J2Len(a, b, p[1], p[2], alo, blo, junk) = bestsize},
                          1, 2)[2] - bestsize + 1,
          k |-> bestsize]

\* SequenceMatcher.find_longest_match(alo, ahi, blo, bhi)
FindLongestMatch(a, b, alo, ahi, blo, bhi, junk) ==
    ExtendForward(a, b, ahi, bhi,
        ExtendBack(a, b, alo, blo,
            ExtendForward(a, b, ahi, bhi,
                ExtendBack(a, b, alo, blo,
                    JunkFreeMatch(a, b, alo, blo, junk,
                                  Range(alo, ahi) \X Range(blo, bhi),
                                  BestSize(a, b, alo, blo, junk,
                                           Range(alo, ahi) \X Range(blo, bhi))),
                    junk, FALSE),
                junk, FALSE),
            junk, TRUE),
        junk, TRUE)

\* The queue loop of get_matching_blocks: every block found in a[alo:ahi]
\* and b[blo:bhi], x being the longest match there.
RECURSIVE FoundBlocks(_, _, _, _, _, _, _, _)
FoundBlocks(a, b, alo, ahi, blo, bhi, junk, x) ==
    IF x.k = 0 THEN {}
    ELSE {x}
         \cup (IF alo < x.i /\ blo < x.j
               THEN FoundBlocks(a, b, alo, x.i, blo, x.j, junk,
                                FindLongestMatch(a, b, alo, x.i, blo, x.j, junk))
               ELSE {})
         \cup (IF x.i + x.k < ahi /\ x.j + x.k < bhi
               THEN FoundBlocks(a, b, x.i + x.k, ahi, x.j + x.k, bhi, junk,
                                FindLongestMatch(a, b, x.i + x.k, ahi, x.j + x.k, bhi,
                                                 junk))
               ELSE {})

\* matching_blocks.sort(): the blocks in ascending (i, j, k).
RECURSIVE SortBlocks(_)
SortBlocks(S) ==
    IF S = {} THEN <<>>
    ELSE LET first == CHOOSE x \in S : \A y \in S :
                          \/ x.i < y.i
                          \/ x.i = y.i /\ x.j < y.j
                          \/ x.i = y.i /\ x.j = y.j /\ x.k <= y.k
         IN  <<first>> \o SortBlocks(S \ {first})

\* The loop of get_matching_blocks that collapses adjacent blocks.
RECURSIVE Collapse(_, _)
Collapse(blocks, cur) ==
    IF blocks = <<>> THEN (IF cur.k # 0 THEN <<cur>> ELSE <<>>)
    ELSE LET nxt == Head(blocks)
         IN  IF cur.i + cur.k = nxt.i /\ cur.j + cur.k = nxt.j
             THEN Collapse(Tail(blocks), [cur EXCEPT !.k = cur.k + nxt.k])
             ELSE (IF cur.k # 0 THEN <<cur>> ELSE <<>>) \o Collapse(Tail(blocks), nxt)

\* SequenceMatcher.get_matching_blocks()
GetMatchingBlocks(a, b, junk) ==
    Collapse(SortBlocks(FoundBlocks(a, b, 0, Len(a), 0, Len(b), junk,
                                    FindLongestMatch(a, b, 0, Len(a), 0, Len(b), junk))),
             [i |-> 0, j |-> 0, k |-> 0])
        \o <<[i |-> Len(a), j |-> Len(b), k |-> 0]>>

\* The loop of get_opcodes over the matching blocks, from (i, j).
RECURSIVE OpcodesFrom(_, _, _)
OpcodesFrom(blocks, i, j) ==
    IF blocks = <<>> THEN <<>>
    ELSE LET m == Head(blocks)
             tag == IF i < m.i /\ j < m.j THEN "replace"
                    ELSE IF i < m.i THEN "delete"
                    ELSE IF j < m.j THEN "insert"
                    ELSE ""
             gap == IF tag # ""
                    THEN <<[tag |-> tag, i1 |-> i, i2 |-> m.i, j1 |-> j, j2 |-> m.j]>>
                    ELSE <<>>
             eq == IF m.k # 0
                   THEN <<[tag |-> "equal", i1 |-> m.i, i2 |-> m.i + m.k,
                           j1 |-> m.j, j2 |-> m.j + m.k]>>
                   ELSE <<>>
         IN  gap \o eq \o OpcodesFrom(Tail(blocks), m.i + m.k, m.j + m.k)

\* SequenceMatcher.get_opcodes()
GetOpcodes(a, b, junk) == OpcodesFrom(GetMatchingBlocks(a, b, junk), 0, 0)

RECURSIVE SumK(_)
SumK(blocks) == IF blocks = <<>> THEN 0 ELSE Head(blocks).k + SumK(Tail(blocks))

\* SequenceMatcher.ratio() is 2.0 * Matches / Total (1.0 when Total is 0);
\* the two are kept apart so that ratios compare exactly.
Matches(a, b) == SumK(GetMatchingBlocks(a, b, BJunk(b, TRUE)))
Total(a, b) == Len(a) + Len(b)

\* Mutant of Dump: the loop starts one line late.
DumpFromSecond(tag, x, lo, hi) ==
    [n \in 1..(hi - lo - 1) |-> <<tag, SP>> \o At(x, lo + n)]

\* Differ._dump(tag, x, lo, hi): one row "<tag> <line>" per line.
RECURSIVE Dump(_, _, _, _)
Dump(tag, x, lo, hi) ==
    IF lo >= hi THEN <<>>
    ELSE <<(<<tag, SP>> \o At(x, lo))>> \o Dump(tag, x, lo + 1, hi)

\* Differ._plain_replace: the shorter block is dumped first.
PlainReplace(a, alo, ahi, b, blo, bhi) ==
    IF bhi - blo < ahi - alo
    THEN Dump("+", b, blo, bhi) \o Dump("-", a, alo, ahi)
    ELSE Dump("-", a, alo, ahi) \o Dump("+", b, blo, bhi)

RECURSIVE Rep(_, _)
Rep(c, n) == IF n <= 0 THEN <<>> ELSE <<c>> \o Rep(c, n - 1)

\* The opcode loop of _fancy_replace that builds atags and btags.
RECURSIVE ATags(_)
ATags(ops) ==
    IF ops = <<>> THEN <<>>
    ELSE LET o == Head(ops)
             la == o.i2 - o.i1
         IN  (CASE o.tag = "replace" -> Rep("^", la)
                [] o.tag = "delete" -> Rep("-", la)
                [] o.tag = "insert" -> <<>>
                [] o.tag = "equal" -> Rep(SP, la)) \o ATags(Tail(ops))

RECURSIVE BTags(_)
BTags(ops) ==
    IF ops = <<>> THEN <<>>
    ELSE LET o == Head(ops)
             lb == o.j2 - o.j1
         IN  (CASE o.tag = "replace" -> Rep("^", lb)
                [] o.tag = "delete" -> <<>>
                [] o.tag = "insert" -> Rep("+", lb)
                [] o.tag = "equal" -> Rep(SP, lb)) \o BTags(Tail(ops))

\* difflib._keep_original_ws(s, tag_s)
KeepOriginalWs(s, tag_s) ==
    [n \in 1..Min({Len(s), Len(tag_s)}) |->
        IF tag_s[n] = SP /\ (IsSpace(s[n]) \/ s[n] = TAB) THEN s[n] ELSE tag_s[n]]

\* str.rstrip() of a guide line.
RECURSIVE RStripWs(_)
RStripWs(s) ==
    IF s # <<>> /\ (IsSpace(s[Len(s)]) \/ s[Len(s)] = TAB)
    THEN RStripWs(SubSeq(s, 1, Len(s) - 1)) ELSE s

\* The "? " row of _qformat for a guide line, if the guide is not empty.
GuideRow(tags) == IF tags # <<>> THEN <<(<<"?", SP>> \o tags \o <<LF>>)>> ELSE <<>>

\* Differ._qformat: the "-" row, the "+" row and their "?" guide rows.
QFormat(aline, bline, atags, btags) ==
    <<(<<"-", SP>> \o aline)>>
    \o GuideRow(RStripWs(KeepOriginalWs(aline, atags)))
    \o <<(<<"+", SP>> \o bline)>>
    \o GuideRow(RStripWs(KeepOriginalWs(bline, btags)))

\* ratio() of SequenceMatcher(charjunk, x, y) is above num / 100.
RatioAbove(x, y, num) == 200 * Matches(x, y) > num * Total(x, y)

\* ratio() of SequenceMatcher(charjunk, x, y) is below num / 100.
RatioBelow(x, y, num) == 200 * Matches(x, y) < num * Total(x, y)

\* ratio() of (x, y) is at least ratio() of (u, v).
RatioAtLeast(x, y, u, v) == Matches(x, y) * Total(u, v) >= Matches(u, v) * Total(x, y)

\* The pairs of different lines whose ratio is above 0.74, the initial
\* best_ratio.
ClosePairs(a, b, pairs) ==
    {p \in pairs : /\ At(a, p[1]) # At(b, p[2])
                   /\ RatioAbove(At(a, p[1]), At(b, p[2]), 74)}

\* Those of the close pairs whose ratio is the highest.
TopPairs(a, b, close) ==
    {p \in close : \A q \in close :
        RatioAtLeast(At(a, p[1]), At(b, p[2]), At(a, q[1]), At(b, q[2]))}

\* The first pair of S in the loop order of _fancy_replace (j outside, i
\* inside); <<>> for None.
FirstPair(S) == IF S = {} THEN <<>> ELSE LoopFirst(S, 2, 1)

\* best_i and best_j after the search loops of _fancy_replace.
BestPair(a, alo, ahi, b, blo, bhi) ==
    FirstPair(TopPairs(a, b, ClosePairs(a, b, Range(alo, ahi) \X Range(blo, bhi))))

\* eqi and eqj after the search loops: the first pair of identical lines.
EqualPair(a, alo, ahi, b, blo, bhi) ==
    FirstPair({p \in Range(alo, ahi) \X Range(blo, bhi) : At(a, p[1]) = At(b, p[2])})

\* The pair _fancy_replace synchs on: the best pair unless its ratio is
\* below the cutoff 0.75, else the identical pair, else none.
Settle(a, b, best, equal) ==
    IF best = <<>> THEN equal
    ELSE IF RatioBelow(At(a, best[1]), At(b, best[2]), 75) THEN equal
    ELSE best

SynchPair(a, alo, ahi, b, blo, bhi) ==
    Settle(a, b, BestPair(a, alo, ahi, b, blo, bhi), EqualPair(a, alo, ahi, b, blo, bhi))

\* The rows for the synch pair, from the opcodes of the two lines.
SynchQuad(aelt, belt, ops) == QFormat(aelt, belt, ATags(ops), BTags(ops))

SynchRows(aelt, belt) ==
    IF aelt = belt THEN <<(<<SP, SP>> \o aelt)>>
    ELSE SynchQuad(aelt, belt, GetOpcodes(aelt, belt, BJunk(belt, TRUE)))

\* Differ._fancy_helper, with the body of Differ._fancy_replace in the
\* branch that calls it (both blocks are not empty); synch is the synch
\* pair of the two blocks.
RECURSIVE FancyHelper(_, _, _, _, _, _, _)
FancyHelper(a, alo, ahi, b, blo, bhi, synch) ==
    IF alo >= ahi /\ blo >= bhi THEN <<>>
    ELSE IF alo >= ahi THEN Dump("+", b, blo, bhi)
    ELSE IF blo >= bhi THEN Dump("-", a, alo, ahi)
    ELSE IF synch = <<>> THEN PlainReplace(a, alo, ahi, b, blo, bhi)
    ELSE FancyHelper(a, alo, synch[1], b, blo, synch[2],
                     SynchPair(a, alo, synch[1], b, blo, synch[2]))
         \o SynchRows(At(a, synch[1]), At(b, synch[2]))
         \o FancyHelper(a, synch[1] + 1, ahi, b, synch[2] + 1, bhi,
                        SynchPair(a, synch[1] + 1, ahi, b, synch[2] + 1, bhi))

\* Differ._fancy_replace(a, alo, ahi, b, blo, bhi), called on two blocks
\* that are not empty.
FancyReplace(a, alo, ahi, b, blo, bhi) ==
    FancyHelper(a, alo, ahi, b, blo, bhi, SynchPair(a, alo, ahi, b, blo, bhi))

\* The loop of Differ.compare over the line opcodes.
RECURSIVE Compare(_, _, _)
Compare(a, b, ops) ==
    IF ops = <<>> THEN <<>>
    ELSE LET o == Head(ops)
         IN  (CASE o.tag = "replace" -> FancyReplace(a, o.i1, o.i2, b, o.j1, o.j2)
                [] o.tag = "delete" -> Dump("-", a, o.i1, o.i2)
                [] o.tag = "insert" -> Dump("+", b, o.j1, o.j2)
                [] o.tag = "equal" -> Dump(SP, a, o.i1, o.i2))
             \o Compare(a, b, Tail(ops))

\* difflib.ndiff(a, b): linejunk is None, charjunk IS_CHARACTER_JUNK.
Ndiff(a, b) == Compare(a, b, GetOpcodes(a, b, {}))

\* diff.diff(a, b)
Diff(a, b) == Ndiff(SplitLines(a), SplitLines(b))

\* str.startswith(prefix)
StartsWith(line, prefix) ==
    Len(line) >= Len(prefix) /\ SubSeq(line, 1, Len(prefix)) = prefix

\* The terminal colour sequences "\033[38;2;255;0;0m" (red),
\* "\033[38;2;0;255;0m" (green) and "\033[38;2;255;255;255m" (white).
RED == "RED"
GREEN == "GREEN"
WHITE == "WHITE"

\* diff._format_colourful(line)
FormatColourful(line) ==
    IF StartsWith(line, <<"-">>) THEN <<RED>> \o line \o <<WHITE>>
    ELSE IF StartsWith(line, <<"+">>) THEN <<GREEN>> \o line \o <<WHITE>>
    ELSE line

\* The first loop of pretty_print: relevant_lines.
RelevantLines(diff, context_lines) ==
    UNION {Range(i - context_lines, i + context_lines) :
              i \in {i \in Range(0, Len(diff)) : ~StartsWith(At(diff, i), <<SP, SP>>)}}

\* What one print() call of pretty_print writes: the "..." marker, or the
\* formatted row of script index i.
GapMarker == [kind |-> "gap", i |-> -1, text |-> <<".", ".", ".">>]
RowPrinted(diff, i) == [kind |-> "row", i |-> i, text |-> FormatColourful(At(diff, i))]

\* Mutant of PrintLoop: the marker is printed without the test for None.
RECURSIVE PrintLoopMarkerFirst(_, _, _)
PrintLoopMarkerFirst(diff, todo, last_i) ==
    IF todo = <<>> THEN <<>>
    ELSE LET i == Head(todo)
         IN  IF i < 0 \/ i >= Len(diff) THEN PrintLoopMarkerFirst(diff, Tail(todo), last_i)
             ELSE (IF last_i = <<>> \/ i # last_i[1] + 1 THEN <<GapMarker>> ELSE <<>>)
                  \o <<RowPrinted(diff, i)>>
                  \o PrintLoopMarkerFirst(diff, Tail(todo), <<i>>)

\* The second loop of pretty_print over sorted(relevant_lines); last_i is
\* <<>> for None.
RECURSIVE PrintLoop(_, _, _)
PrintLoop(diff, todo, last_i) ==
    IF todo = <<>> THEN <<>>
    ELSE LET i == Head(todo)
         IN  IF i < 0 \/ i >= Len(diff) THEN PrintLoop(diff, Tail(todo), last_i)
             ELSE (IF last_i # <<>> /\ i # last_i[1] + 1 THEN <<GapMarker>> ELSE <<>>)
                  \o <<RowPrinted(diff, i)>>
                  \o PrintLoop(diff, Tail(todo), <<i>>)

\* diff.pretty_print(diff, context_lines): everything it prints, in order.
PrettyPrint(diff, context_lines) ==
    PrintLoop(diff, Sorted(RelevantLines(diff, context_lines)), <<>>)

(***************************************************************************)
(* The jinja2 collaborator, at the boundary deploy.py uses.  A template    *)
(* source is text plus three tokens standing for template syntax.          *)
(***************************************************************************)
XCR == "{{CR}}"        \* an expression that renders a carriage return
XUNDEF == "{{undef}}"  \* a reference to a variable that is not defined
XBAD == "{%"           \* a block tag that is never closed

Chars(s) == {s[n] : n \in 1..Len(s)}

\* The lexer drops one trailing newline (keep_trailing_newline is off).
DropTrailingNewline(s) ==
    IF s # <<>> /\ s[Len(s)] = LF THEN SubSeq(s, 1, Len(s) - 1) ELSE s

\* The value each expression token renders to.
Expand(s) == [n \in 1..Len(s) |-> IF s[n] = XCR THEN CR ELSE s[n]]

\* env.get_template(name) on a source: the compiled template, or the
\* TemplateSyntaxError the compilation raises.
GetTemplate(name, source) ==
    IF XBAD \in Chars(source)
    THEN [exc |-> "TemplateSyntaxError", template |-> Template(name, "none", <<>>)]
    ELSE [exc |-> "none",
          template |-> Template(name,
                                IF XUNDEF \in Chars(source) THEN "undefined" ELSE "none",
                                Expand(DropTrailingNewline(UniversalNewlines(source))))]

\* env.compile_expression(expression)(variables), for the two literals.
EvalExpression(expression) == expression = "true"

(***************************************************************************)
(* main(): the state of one run.                                           *)
(***************************************************************************)
VARIABLES
    templates,     \* loader.list_templates(): the template paths, in order
    sources,       \* config_dir: template path -> template source
    fs,            \* output_dir: output path -> destination
    install_if,    \* load_config_file(install_if_file): group -> expression
    diff_only,     \* --diff_only
    item,          \* position of the for loop in templates (from 1)
    pc,            \* where main is: "for", "while", "getchar", "confirm",
                   \* "edit", "done", "quit" or "raised"
    command,       \* the key click.getchar() returned last
    error,         \* the exception that left main, and the template it names
    file,          \* the TemplateFile of the current pass of the while loop
    screen,        \* what the last print_diff call printed
    \* History of the run, for the properties below:
    loaded,        \* items TemplateFile.create was called for
    shown,         \* items print_diff was called for
    prompted,      \* items a key was read for
    written,       \* items file.write() completed for
    since_decline, \* "declined" from a declined confirmation until create
                   \* is next called ("reloaded"), "none" otherwise
    \* The functions checked on their own:
    call,          \* the function applied and its arguments
    result         \* what it returned

mainvars == <<templates, sources, fs, install_if, diff_only, item, pc, command,
              error, file, screen, loaded, shown, prompted, written, since_decline>>
vars == <<mainvars, call, result>>

\* --diff_context_lines (its default)
diff_context_lines == 2

Groups == {"g1", "g2"}
\* The template tree the runs are drawn from, in list_templates() order
\* (sorted): two groups that hold the same paths below the group.
AllTemplates == << <<"g1", "x">>, <<"g1", "y">>, <<"g2", "x">>, <<"g2", "y">> >>

\* template_path.parts[0]
Group(template_path) == Head(template_path)

\* output_dir.joinpath(*template_path.parts[1:])
OutputPath(template_path) == Tail(template_path)

OutputPaths == {OutputPath(AllTemplates[n]) : n \in 1..Len(AllTemplates)}

\* sorted(found): the chosen templates in the order of AllTemplates.
RECURSIVE ListTemplates(_, _)
ListTemplates(found, n) ==
    IF n > Len(AllTemplates) THEN <<>>
    ELSE (IF AllTemplates[n] \in found THEN <<AllTemplates[n]>> ELSE <<>>)
         \o ListTemplates(found, n + 1)

SourceChoices == { <<>>, <<"a">>, <<"a", XCR>>, <<XUNDEF>>, <<XBAD>> }
DestChoices == { Missing("rw"), Missing("ro"), File(<<>>, "rw"),
                 File(<<"a", LF>>, "rw"), File(<<"b", LF>>, "rw"),
                 File(<<"b", LF>>, "ro"), File(<<"b", LF>>, "locked") }
FewDestChoices == { Missing("rw"), File(<<"a", LF>>, "rw") }
InstallIfChoices == { [g \in {} |-> ""],
                      [g \in {"g1"} |-> "false"],
                      [g \in {"g2"} |-> "false"],
                      [g \in Groups |-> IF g = "g1" THEN "true" ELSE "false"],
                      [g \in Groups |-> IF g = "g1" THEN "" ELSE "true"] }
\* What the operator may leave behind when the editor exits.
EditedSources == { <<"a">>, <<"b">> }
EditedDests == { File(<<"a", LF>>, "rw") }

NoError == [type |-> "none", names |-> <<>>]
NoScreen == <<>>
NoFile == <<>>
NoCall == [fn |-> "main"]

\* install_if.get(group)
InstallIfGet(group) ==
    IF group \in DOMAIN install_if THEN [some |-> TRUE, text |-> install_if[group]]
    ELSE [some |-> FALSE, text |-> ""]

\* The walrus test of line 156: the expression is there and not empty.
Truthy(e) == e.some /\ e.text # ""

\* Mutant of Excluded: the predicate is evaluated after the load.
ExcludedNever(template_path) == FALSE

\* Lines 156-158: the group has an expression and it evaluates false.
Excluded(template_path) ==
    LET e == InstallIfGet(Group(template_path))
    IN  Truthy(e) /\ ~EvalExpression(e.text)

\* Mutant of Create: the TemplateFile of an item is built once and kept.
CreateMemoized(template_path) ==
    IF item \in loaded THEN file
    ELSE LET t == GetTemplate(template_path, sources[template_path])
         IN  [exc |-> t.exc, output_path |-> OutputPath(template_path),
              template |-> t.template]

\* TemplateFile.create(env, output_dir, template_path)
Create(template_path) ==
    LET t == GetTemplate(template_path, sources[template_path])
    IN  [exc |-> t.exc, output_path |-> OutputPath(template_path), template |-> t.template]

\* TemplateFile.print_diff(context_lines): the header and the rows.
PrintDiff(self, d) ==
    LET e == ReadExisting(d)
        existing == IF e.val.some /\ e.val.text # <<>> THEN e.val.text ELSE <<>>
    IN  [from |-> self.template.filename, to |-> self.output_path,
         rows |-> PrettyPrint(Diff(existing, Render(self.template).text),
                              diff_context_lines)]

Init ==
    /\ \E found \in SUBSET {AllTemplates[n] : n \in 1..Len(AllTemplates)} :
          /\ Cardinality(found) <= MaxItems
          /\ templates = ListTemplates(found, 1)
          /\ sources \in [found -> SourceChoices]
    /\ fs \in [OutputPaths -> DestChoices]
    /\ fs[<<"y">>] \in FewDestChoices
    /\ install_if \in InstallIfChoices
    /\ diff_only \in BOOLEAN
    /\ item = 1
    /\ pc = "for"
    /\ command = ""
    /\ error = NoError
    /\ file = NoFile
    /\ screen = NoScreen
    /\ loaded = {}
    /\ shown = {}
    /\ prompted = {}
    /\ written = {}
    /\ since_decline = "none"
    /\ call = NoCall
    /\ result = <<>>

\* An exception leaves main: the run is over.
Raise(type, names) ==
    /\ pc' = "raised"
    /\ error' = [type |-> type, names |-> names]

\* Mutant of Break: the for loop loses one template after a break.
BreakSkipsNext ==
    /\ pc' = "for"
    /\ item' = item + 2

\* break: the while loop is left and the for loop goes on.
Break ==
    /\ pc' = "for"
    /\ item' = item + 1

\* Lines 150-160: the for loop takes the next template, filters it by its
\* group and clears the screen; after the last template main returns.
ForNext ==
    /\ pc = "for"
    /\ IF item > Len(templates)
       THEN pc' = "done" /\ UNCHANGED <<item, screen>>
       ELSE IF Excluded(templates[item])
       THEN item' = item + 1 /\ UNCHANGED <<pc, screen>>
       ELSE pc' = "while" /\ screen' = NoScreen /\ UNCHANGED item
    /\ UNCHANGED <<templates, sources, fs, install_if, diff_only, command, error, file,
                   loaded, shown, prompted, written, since_decline, call, result>>

\* Mutant of DiffOnlyBreaks: the test of diff_only is missing.
DiffOnlyIgnored == FALSE

\* Lines 171-172: with --diff_only the loop is left after the diff.
DiffOnlyBreaks == diff_only

\* Lines 161-172: one pass of the while loop up to the prompt.
WhileBody ==
    /\ pc = "while"
    /\ LET template_path == templates[item]
           created == Create(template_path)
           dest == fs[created.output_path]
           has_diff == HasDiff(created.template, dest)
       IN  /\ loaded' = loaded \cup {item}
           /\ IF created.exc # "none"
              THEN /\ Raise("RuntimeError", template_path)
                   /\ UNCHANGED <<item, file, screen, shown, since_decline>>
              ELSE IF has_diff.exc # "none"
              THEN /\ Raise(has_diff.exc, <<>>)
                   /\ file' = created
                   /\ UNCHANGED <<item, screen, shown, since_decline>>
              ELSE IF ~has_diff.val
              THEN /\ Break
                   /\ file' = created
                   /\ since_decline' = "none"
                   /\ UNCHANGED <<error, screen, shown>>
              ELSE /\ file' = created
                   /\ screen' = PrintDiff(created, dest)
                   /\ shown' = shown \cup {item}
                   /\ UNCHANGED error
                   /\ IF DiffOnlyBreaks
                      THEN Break /\ since_decline' = "none"
                      ELSE /\ pc' = "getchar"
                           /\ since_decline' =
                                 IF since_decline = "declined" THEN "reloaded"
                                 ELSE since_decline
                           /\ UNCHANGED item
    /\ UNCHANGED <<templates, sources, fs, install_if, diff_only, command,
                   prompted, written, call, result>>

\* The keys main tells apart, and one it does not.
Keys == {"e", "r", "s", "o", "q", "x"}

\* Mutant of AfterDecline: a declined confirmation goes back to the prompt.
AfterDeclinePrompt == "getchar"

\* Where main is after the if chain of lines 176-186 matched no branch:
\* at the top of the while loop.
AfterDecline == "while"

\* Mutant of AfterQuit: q only leaves the current item.
AfterQuitSkip == "for"

\* Line 186: return.
AfterQuit == "quit"

\* Lines 174-186: the prompt is printed, a key is read and dispatched.
GetChar(key) ==
    /\ pc = "getchar"
    /\ command' = key
    /\ prompted' = prompted \cup {item}
    /\ since_decline' = "none"
    /\ CASE key = "e" -> pc' = "edit" /\ UNCHANGED item
         [] key = "r" -> pc' = "while" /\ UNCHANGED item
         [] key = "s" -> Break
         [] key = "o" -> pc' = "confirm" /\ UNCHANGED item
         [] key = "q" -> /\ pc' = AfterQuit
                         /\ item' = IF AfterQuit = "for" THEN item + 1 ELSE item
         [] OTHER -> pc' = AfterDecline /\ UNCHANGED item
    /\ UNCHANGED <<templates, sources, fs, install_if, diff_only, error, file, screen,
                   loaded, shown, written, call, result>>

\* Mutant of Confirm: the file is written whatever click.confirm answers.
ConfirmAlwaysWrites(answer) ==
    /\ pc = "confirm"
    /\ command = "o"
    /\ LET w == Write(file.template, fs[file.output_path])
       IN  IF w.exc # "none"
           THEN /\ Raise(w.exc, <<>>)
                /\ UNCHANGED <<fs, item, written, since_decline>>
           ELSE /\ fs' = [fs EXCEPT ![file.output_path] = w.dest]
                /\ written' = IF answer THEN written \cup {item} ELSE written
                /\ since_decline' = IF answer THEN since_decline ELSE "declined"
                /\ IF answer THEN Break ELSE pc' = AfterDecline /\ UNCHANGED item
                /\ UNCHANGED error
    /\ UNCHANGED <<templates, sources, install_if, diff_only, command, file, screen,
                   loaded, shown, prompted, call, result>>

\* Lines 182-184: click.confirm answers; on yes the file is written.
Confirm(answer) ==
    /\ pc = "confirm"
    /\ command = "o"
    /\ IF answer
       THEN LET w == Write(file.template, fs[file.output_path])
            IN  IF w.exc # "none"
                THEN /\ Raise(w.exc, <<>>)
                     /\ UNCHANGED <<fs, item, written, since_decline>>
                ELSE /\ fs' = [fs EXCEPT ![file.output_path] = w.dest]
                     /\ written' = written \cup {item}
                     /\ Break
                     /\ UNCHANGED <<error, since_decline>>
       ELSE /\ pc' = AfterDecline
            /\ since_decline' = "declined"
            /\ UNCHANGED <<fs, item, written, error>>
    /\ UNCHANGED <<templates, sources, install_if, diff_only, command, file, screen,
                   loaded, shown, prompted, call, result>>

\* Mutant of EditorExit: the item is left once the editor exits.
EditorExitBreaks ==
    /\ pc = "edit"
    /\ \E s \in EditedSources \cup {sources[templates[item]]} :
          sources' = [sources EXCEPT ![templates[item]] = s]
    /\ \E d \in (IF fs[file.output_path].perm = "rw" THEN EditedDests ELSE {})
                   \cup {fs[file.output_path]} :
          fs' = [fs EXCEPT ![file.output_path] = d]
    /\ Break
    /\ UNCHANGED <<templates, install_if, diff_only, command, error, file, screen,
                   loaded, shown, prompted, written, since_decline, call, result>>

\* Line 177: click.edit returns once the editor exits; the operator may
\* have saved a new template source, a new destination, or neither.
EditorExit ==
    /\ pc = "edit"
    /\ \E s \in EditedSources \cup {sources[templates[item]]} :
          sources' = [sources EXCEPT ![templates[item]] = s]
    /\ \E d \in (IF fs[file.output_path].perm = "rw" THEN EditedDests ELSE {})
                   \cup {fs[file.output_path]} :
          fs' = [fs EXCEPT ![file.output_path] = d]
    /\ pc' = "while"
    /\ UNCHANGED <<templates, install_if, diff_only, item, command, error, file, screen,
                   loaded, shown, prompted, written, since_decline, call, result>>

\* The OverwriteSource decision of the review loop's other evolution (the
\* one with the machine-config registry): its key is read at the prompt.
ChooseOverwriteSource ==
    /\ pc = "getchar"
    /\ command' = "O"
    /\ prompted' = prompted \cup {item}
    /\ since_decline' = "none"
    /\ pc' = "confirm"
    /\ UNCHANGED <<templates, sources, fs, install_if, diff_only, item, error, file,
                   screen, loaded, shown, written, call, result>>

\* Mutant of CopyOntoSource: the rendered text is written to the
\* destination instead (the direction is swapped).
CopyOntoDestination(template_path, output_path) ==
    /\ UNCHANGED sources
    /\ fs' = [fs EXCEPT ![output_path] = File(sources[template_path], "rw")]

\* The destination's bytes are copied onto the template source.
CopyOntoSource(template_path, output_path) ==
    /\ sources' = [sources EXCEPT ![template_path] = fs[output_path].text]
    /\ UNCHANGED fs

\* OverwriteSource asks for the same confirmation; on yes the copy is made
\* and the item resolves, on no the prompt is shown again.
ConfirmOverwriteSource(answer) ==
    /\ pc = "confirm"
    /\ command = "O"
    /\ IF answer
       THEN LET r == ReadText(fs[file.output_path])
            IN  IF r.exc # "none"
                THEN Raise(r.exc, <<>>) /\ UNCHANGED <<sources, fs, item>>
                ELSE /\ CopyOntoSource(templates[item], file.output_path)
                     /\ Break
                     /\ UNCHANGED error
       ELSE pc' = "getchar" /\ UNCHANGED <<sources, fs, item, error>>
    /\ UNCHANGED <<templates, install_if, diff_only, command, file, screen, loaded,
                   shown, prompted, written, since_decline, call, result>>

\* The review loop.
Next ==
    \/ ForNext
    \/ WhileBody
    \/ \E key \in Keys : GetChar(key)
    \/ \E answer \in BOOLEAN : Confirm(answer)
    \/ EditorExit
    \/ ChooseOverwriteSource
    \/ \E answer \in BOOLEAN : ConfirmOverwriteSource(answer)

Spec == Init /\ [][Next]_vars

\* The decisions that resolve an item.
Resolving ==
    \/ GetChar("s")
    \/ GetChar("q")
    \/ Confirm(TRUE)
    \/ ConfirmOverwriteSource(TRUE)

\* One pass of the while loop, told by where main is before and after it:
\* WhileBody is the only action at "while" and each of its steps leaves it.
WhilePass == pc = "while" /\ pc' \in {"for", "getchar", "raised"}

\* The runs the termination of main is checked on.
MaxFairItems == 2
InitFair == Init /\ Len(templates) <= MaxFairItems

\* The review loop with an operator who lets every editor exit and at every
\* item eventually gives a resolving decision; main itself, a sequential
\* program, keeps running.
SpecFair ==
    /\ InitFair /\ [][Next]_vars
    /\ WF_vars(ForNext)
    /\ WF_pc(WhilePass)
    /\ WF_vars(EditorExit)
    /\ SF_vars(Resolving)

(***************************************************************************)
(* The functions on their own: the arguments are drawn, the function is    *)
(* applied once.  main stays where it is.                                  *)
(***************************************************************************)
MainIdle ==
    /\ templates = <<>>
    /\ sources = <<>>
    /\ fs = <<>>
    /\ install_if = <<>>
    /\ diff_only = FALSE
    /\ item = 1
    /\ pc = "idle"
    /\ command = ""
    /\ error = NoError
    /\ file = NoFile
    /\ screen = NoScreen
    /\ loaded = {}
    /\ shown = {}
    /\ prompted = {}
    /\ written = {}
    /\ since_decline = "none"

\* Texts of at most n lines drawn from lines; the last line may lack its
\* terminator.
RECURSIVE TextsOfLines(_, _)
TextsOfLines(lines, n) ==
    IF n = 0 THEN {<<>>}
    ELSE LET shorter == TextsOfLines(lines, n - 1)
         IN  shorter \cup {t \o l \o <<LF>> : t \in shorter, l \in lines}

MaxLines == 2
DiffLines == { <<>>, <<"a">>, <<"a", "b">>, <<"a", "b", "c">>, <<"c">> }
DiffTexts ==
    LET whole == TextsOfLines(DiffLines, MaxLines)
    IN  whole \cup {SubSeq(t, 1, Len(t) - 1) : t \in whole \ {<<>>}}
              \cup {<<"a", CR, LF, "c", CR>>}

InitDiff ==
    /\ MainIdle
    /\ call \in {[fn |-> "diff", a |-> a, b |-> b] : a \in DiffTexts, b \in DiffTexts}
    /\ result = <<>>

\* diff.diff(a, b) is called and returns.
CallDiff ==
    /\ call.fn = "diff"
    /\ result = <<>>
    /\ result' = <<Diff(call.a, call.b)>>
    /\ UNCHANGED <<mainvars, call>>

SpecDiff == InitDiff /\ [][CallDiff]_vars

RECURSIVE SeqsUpTo(_, _)
SeqsUpTo(S, n) ==
    IF n = 0 THEN {<<>>}
    ELSE LET shorter == SeqsUpTo(S, n - 1)
         IN  shorter \cup {Append(t, c) : t \in shorter, c \in S}

\* has_diff on its own: every rendered text and every destination.
HasDiffChars == {"a", SP, LF, CR}

InitHasDiff ==
    /\ MainIdle
    /\ call \in {[fn |-> "has_diff", out |-> out, dest |-> dest] :
                    out \in SeqsUpTo(HasDiffChars, MaxLen),
                    dest \in {Missing("rw")}
                             \cup {File(t, "rw") : t \in SeqsUpTo(HasDiffChars, MaxLen)}}
    /\ result = <<>>

\* TemplateFile.has_diff() is called and returns.
CallHasDiff ==
    /\ call.fn = "has_diff"
    /\ result = <<>>
    /\ result' = <<HasDiff(Template(<<"g1", "x">>, "none", call.out), call.dest)>>
    /\ UNCHANGED <<mainvars, call>>

SpecHasDiff == InitHasDiff /\ [][CallHasDiff]_vars

\* pretty_print on its own: every edit script of at most MaxScript rows and
\* the scripts diff gives for two changes of the text x, y, z.
MaxScript == 4
MaxContext == 2
ScriptRows == { <<SP, SP, "x">>, <<"-", SP, "x">>, <<"+", SP, "x">>,
                <<"?", SP, "^", LF>> }
TextXYZ == <<"x", LF, "y", LF, "z", LF>>
ExampleScripts == { Diff(TextXYZ, <<"x", LF, "Y", LF, "z", LF>>),
                    Diff(TextXYZ, <<"x", LF, "z", LF>>) }

InitPrettyPrint ==
    /\ MainIdle
    /\ call \in {[fn |-> "pretty_print", diff |-> d, context_lines |-> n] :
                    d \in SeqsUpTo(ScriptRows, MaxScript) \cup ExampleScripts,
                    n \in 0..MaxContext}
    /\ result = <<>>

\* diff.pretty_print(diff, context_lines) is called and returns.
CallPrettyPrint ==
    /\ call.fn = "pretty_print"
    /\ result = <<>>
    /\ result' = <<PrettyPrint(call.diff, call.context_lines)>>
    /\ UNCHANGED <<mainvars, call>>

SpecPrettyPrint == InitPrettyPrint /\ [][CallPrettyPrint]_vars

(***************************************************************************)
(* Properties.                                                             *)
(***************************************************************************)

\* The rendered text of the has_diff call: the raw render and one "\n".
RenderedText == call.out \o <<LF>>

\* The existing text of the has_diff call, as the tool reads it.
ExistingText == UniversalNewlines(call.dest.text)

\* C1: has_diff() returns false exactly when (a) the rendered text is
\* nothing but whitespace and no file exists at the destination, or (b) the
\* existing text (the destination as the tool reads it) equals the rendered
\* text; in every other case it returns true.
C1_HasDiffExactly ==
    result # <<>> =>
        /\ result[1].exc = "none"
        /\ result[1].val =
              ~ \/ /\ \A n \in 1..Len(RenderedText) : RenderedText[n] \in {SP, LF, CR}
                   /\ call.dest.kind = "missing"
                \/ /\ call.dest.kind = "file"
                   /\ ExistingText = RenderedText

\* C1 witness: a whitespace-only render and no destination: no diff.
C1_Witness ==
    /\ result # <<>>
    /\ call.out = <<SP>>
    /\ call.dest.kind = "missing"
    /\ result[1].val = FALSE

\* The script indices pretty_print printed a row for.
PrintedIndices == {result[1][n].i : n \in {n \in 1..Len(result[1]) : result[1][n].kind = "row"}}

\* The script indices whose row is not Unchanged.
ChangedIndices ==
    {i \in 0..(Len(call.diff) - 1) : SubSeq(call.diff[i + 1], 1, 2) # <<SP, SP>>}

\* C2: for context_lines = N >= 0 the windowed renderer emits a row for
\* exactly the in-bounds script indices j with i - N <= j <= i + N for some
\* non-Unchanged index i.
C2_WindowIsSymmetric ==
    result # <<>> =>
        PrintedIndices =
            {j \in 0..(Len(call.diff) - 1) :
                \E i \in ChangedIndices :
                    i - call.context_lines <= j /\ j <= i + call.context_lines}

\* The lines of the rows of a script that start with one of the tags.
RECURSIVE LinesOf(_, _)
LinesOf(script, tags) ==
    IF script = <<>> THEN <<>>
    ELSE (IF SubSeq(Head(script), 1, 2) \in tags
          THEN <<SubSeq(Head(script), 3, Len(Head(script)))>> ELSE <<>>)
         \o LinesOf(Tail(script), tags)

GroupIncluded(k) ==
    LET g == templates[k][1]
    IN  \/ g \notin DOMAIN install_if
        \/ install_if[g] = ""
        \/ install_if[g] = "true"

\* C3: a template is loaded, rendered, diffed or shown only if its group has
\* no predicate or one that evaluates true; a run never fails on a template
\* of an excluded group, and nothing is displayed, prompted or written for
\* one.
C3_ExcludedGroupsUntouched ==
    /\ \A k \in loaded \cup shown \cup prompted \cup written : GroupIncluded(k)
    /\ pc \in {"while", "getchar", "confirm", "edit", "raised"} => GroupIncluded(item)
    /\ \A k \in 1..Len(templates) :
          ~GroupIncluded(k) /\ item > k => k \notin loaded

\* C3 witness: the run went past an excluded template whose source has a
\* syntax fault and ended normally.
C3_Witness ==
    /\ pc = "done"
    /\ \E k \in 1..Len(templates) :
          /\ ~GroupIncluded(k)
          /\ XBAD \in Chars(sources[templates[k]])
          /\ k \notin loaded

\* C4: once OverwriteDestination is confirmed for a differing item, the
\* destination's content is the rendered text, the item is resolved and
\* has_diff() on the item is then false.
C4_OverwriteLeavesNoDiff ==
    [][(pc = "confirm" /\ command = "o" /\ written' # written) =>
          /\ fs'[file.output_path].kind = "file"
          /\ fs'[file.output_path].text = file.template.out \o <<LF>>
          /\ pc' = "for" /\ item' = item + 1
          /\ HasDiff(file.template, fs'[file.output_path]) = [exc |-> "none", val |-> FALSE]
      ]_vars

\* C5 as stated: after a declined confirmation the prompt comes back
\* without the template being loaded and rendered again.
C5_DeclineSkipsReload == pc = "getchar" => since_decline # "reloaded"

\* C5 amended: a declined confirmation of OverwriteDestination writes
\* nothing and puts the same item back at the top of its review loop; the
\* prompt comes back only after the template was loaded and rendered again
\* and has_diff() was true again.
C5_DeclineRestartsLoop ==
    /\ since_decline = "declined" =>
          pc = "while" /\ command = "o" /\ item \notin written
    /\ since_decline = "reloaded" =>
          /\ pc = "getchar" /\ item \in shown
          /\ file = Create(templates[item])
          /\ HasDiff(file.template, fs[file.output_path]).val

\* C5 witness: the prompt is back after a declined confirmation.
C5_Witness == pc = "getchar" /\ since_decline = "reloaded" /\ command = "o"

\* C6: once Quit is chosen the batch ends at once: the step changes no
\* file, no step follows it, and no later item was loaded, displayed,
\* prompted for or written.
C6_QuitEndsBatch ==
    /\ [](pc = "quit" =>
             /\ command = "q"
             /\ \A k \in loaded \cup shown \cup prompted \cup written : k <= item)
    /\ [][(pc = "getchar" /\ command' = "q") =>
             /\ pc' = "quit"
             /\ fs' = fs /\ sources' = sources /\ written' = written
             /\ item' = item]_vars
    /\ [][pc # "quit"]_vars

\* C6 witness: Quit on the second item, the first one written, a third one
\* not reviewed.
C6_Witness ==
    /\ pc = "quit"
    /\ item = 2
    /\ 1 \in written
    /\ Len(templates) = 3

\* C7: every rendering failure of an included template ends the run with an
\* error that names the template.
C7_RenderErrorNamesTemplate ==
    (pc = "raised" /\ error.type \in {"RuntimeError", "UndefinedError"}) =>
        error.names = templates[item]

\* C8: a read or write failure on a destination does not abort the run.
C8_IOErrorDoesNotAbort ==
    ~(pc = "raised" /\ command # "O" /\ error.type = "PermissionError")

IncludedItems == {k \in 1..Len(templates) : GroupIncluded(k)}

\* C11: included items are reviewed strictly in discovery order, each in one
\* contiguous episode: the item under review only ever moves to the next
\* one, an item enters review only as the current item, every included item
\* before the current one has been reviewed, and a run that ends without
\* Quit or an error has reviewed exactly the included items, whatever the
\* operator decided.
C11_DiscoveryOrder ==
    /\ [][/\ item' \in {item, item + 1}
          /\ templates' = templates
          /\ install_if' = install_if
          /\ loaded \subseteq loaded'
          /\ loaded' \ loaded \subseteq {item}
          /\ shown' \ shown \subseteq {item}
          /\ prompted' \ prompted \subseteq {item}
          /\ written' \ written \subseteq {item}]_vars
    /\ [](/\ loaded \subseteq IncludedItems \cap 1..item
          /\ \A k \in IncludedItems : k < item => k \in loaded
          /\ pc = "done" => loaded = IncludedItems)

\* C11 witness: a run over three templates ended normally with the first
\* excluded, the second written by the operator and the third reviewed.
C11_Witness ==
    /\ pc = "done"
    /\ Len(templates) = 3
    /\ loaded = {2, 3}
    /\ written = {2}
    /\ prompted = {2, 3}

\* C12: the tool changes a destination only through a confirmed
\* OverwriteDestination on the item that owns it (what the operator saves
\* in the editor is not the tool's write).  Skip, Refresh, an unrecognized
\* key, a declined confirmation and Quit leave every destination and every
\* template source as they were; after an unrecognized key or a declined
\* confirmation the same item stays under review and is prompted again.
C12_OnlyConfirmedOverwriteWrites ==
    [][/\ (fs' # fs /\ pc # "edit") =>
             /\ pc = "confirm" /\ command = "o"
             /\ item \in written' \ written
             /\ file.output_path = OutputPath(templates[item])
             /\ \A p \in DOMAIN fs : p # file.output_path => fs'[p] = fs[p]
       /\ (pc = "getchar" /\ command' \in {"s", "r", "x", "q"}) =>
             fs' = fs /\ sources' = sources
       /\ (pc = "getchar" /\ command' = "x") =>
             item' = item /\ pc' = "while"
       /\ (pc = "confirm" /\ command = "o" /\ since_decline' = "declined") =>
             fs' = fs /\ sources' = sources /\ item' = item /\ pc' = "while"
       /\ (pc = "while" /\ (command = "x" \/ since_decline = "declined")) =>
             /\ pc' = "getchar" /\ item' = item
             /\ fs' = fs /\ sources' = sources
      ]_vars

\* C12 witness: after an unrecognized key the same item is at the prompt
\* again, an earlier item having been written.
C12_Witness ==
    /\ pc = "getchar"
    /\ command = "x"
    /\ item \in prompted
    /\ written # {}
    /\ item \notin written

\* The current item's template loads and renders, and its rendered text
\* and destination are in one of the two cases in which has_diff() is
\* false: a whitespace-only render and no file, or a readable file whose
\* text as read is the rendered text.
NoDiffWhenReached ==
    LET source == sources[templates[item]]
        rendered == Expand(DropTrailingNewline(UniversalNewlines(source))) \o <<LF>>
        dest == fs[OutputPath(templates[item])]
    IN  /\ pc = "while"
        /\ XBAD \notin Chars(source)
        /\ XUNDEF \notin Chars(source)
        /\ \/ /\ dest.kind = "missing"
              /\ \A n \in 1..Len(rendered) : IsSpace(rendered[n])
           \/ /\ dest.kind = "file"
              /\ dest.perm # "locked"
              /\ UniversalNewlines(dest.text) = rendered

\* C13: if has_diff() is false when an item is reached, the item resolves
\* at once: no diff is displayed, no prompt is issued, nothing is written
\* and the run goes on to the next item.
C13_NoDiffResolvesAtOnce ==
    /\ [][NoDiffWhenReached =>
             /\ pc' = "for" /\ item' = item + 1
             /\ shown' = shown /\ prompted' = prompted /\ written' = written
             /\ screen' = screen
             /\ fs' = fs /\ sources' = sources]_vars
    /\ [](prompted \subseteq shown /\ written \subseteq prompted)

\* C13 witness: the run moved on from an item whose destination already
\* held the rendered text, with nothing shown, prompted or written for it.
C13_Witness ==
    /\ pc = "for"
    /\ item > 1
    /\ item - 1 \in loaded
    /\ item - 1 \notin shown \cup prompted \cup written
    /\ sources[templates[item - 1]] = <<"a">>
    /\ fs[OutputPath(templates[item - 1])] = File(<<"a", LF>>, "rw")

\* C14: the windowed renderer emits rows in ascending script-index order,
\* every emitted row's index is in bounds and within context_lines of some
\* non-Unchanged index, and a gap marker stands exactly before each emitted
\* row whose index is not one more than the row emitted before it: never
\* first, never last, never between two consecutive indices.
C14_RowsAndGapMarkers ==
    result # <<>> =>
        LET out == result[1]
        IN  \A n \in 1..Len(out) :
               /\ out[n].kind = "row" =>
                     /\ out[n].i \in 0..(Len(call.diff) - 1)
                     /\ out[n].text = FormatColourful(call.diff[out[n].i + 1])
                     /\ \E i \in ChangedIndices :
                           /\ out[n].i - i <= call.context_lines
                           /\ i - out[n].i <= call.context_lines
                     /\ (n < Len(out) /\ out[n + 1].kind = "row") =>
                           out[n + 1].i = out[n].i + 1
               /\ out[n].kind = "gap" =>
                     /\ 1 < n /\ n < Len(out)
                     /\ out[n - 1].kind = "row" /\ out[n + 1].kind = "row"
                     /\ out[n + 1].i > out[n - 1].i + 1

\* C14 witness: two windows with a gap marker between them.
C14_Witness ==
    /\ result # <<>>
    /\ call.context_lines = 1
    /\ Len(call.diff) = 4
    /\ Len(result[1]) = 4
    /\ result[1][2] = GapMarker

\* What the current item's template source renders to now, and what its
\* destination reads as now ("" when it is missing).
RenderedNow ==
    Expand(DropTrailingNewline(UniversalNewlines(sources[templates[item]]))) \o <<LF>>
ExistingNow ==
    LET dest == fs[OutputPath(templates[item])]
    IN  IF dest.kind = "missing" THEN <<>> ELSE UniversalNewlines(dest.text)

\* C15: rendering is not memoized across passes of the review loop.  Edit
\* (once the editor exits) and Refresh go back to the top of the loop on the
\* same item, Refresh writing nothing; whenever the prompt is up, the
\* displayed diff is the one between the destination and the template as
\* they are now; and if the difference is gone on the next pass the item
\* resolves with no further prompt.
C15_NotMemoized ==
    /\ [][/\ (pc = "getchar" /\ command' = "r") =>
                /\ pc' = "while" /\ item' = item
                /\ fs' = fs /\ sources' = sources /\ written' = written
          /\ pc = "edit" => pc' = "while" /\ item' = item /\ written' = written
          /\ (NoDiffWhenReached /\ command \in {"e", "r"}) =>
                pc' = "for" /\ item' = item + 1 /\ prompted' = prompted
         ]_vars
    /\ [](pc = "getchar" =>
             /\ file.template.out \o <<LF>> = RenderedNow
             /\ file.output_path = OutputPath(templates[item])
             /\ screen.rows = PrettyPrint(Diff(ExistingNow, RenderedNow),
                                          diff_context_lines)
             /\ ~(fs[file.output_path].kind = "file" /\ ExistingNow = RenderedNow))

\* C15 witness: the prompt is up again after an edit that changed the
\* template source, over the diff of the new render.
C15_Witness ==
    /\ pc = "getchar"
    /\ command = "e"
    /\ sources[templates[item]] = <<"b">>
    /\ file.template.out = <<"b">>
    /\ fs[file.output_path] = File(<<"a", LF>>, "rw")

\* A step that leaves the current item's review loop for the next item or
\* ends the run by Quit.
LeavesItem ==
    /\ pc \in {"while", "getchar", "confirm", "edit"}
    /\ item' # item \/ pc' = "quit"

\* The four ways out the claim names: has_diff() is false, Skip, a confirmed
\* overwrite, Quit.
LeftByNamedWay ==
    \/ NoDiffWhenReached
    \/ pc = "getchar" /\ command' = "s"
    \/ pc = "confirm" /\ command = "o" /\ item \in written'
    \/ pc = "confirm" /\ command = "O" /\ sources'[templates[item]] = fs[file.output_path].text
    \/ pc = "getchar" /\ command' = "q"

\* C16 as stated: an item's review loop is left only when has_diff() is
\* false, the operator chooses Skip, confirms an overwrite or chooses Quit.
C16_LeftOnlyByFourWays == [][LeavesItem => LeftByNamedWay]_vars

\* C16 amended: an item's review loop is left only when has_diff() is
\* false, when diff_only is set (after the diff is displayed), or when the
\* operator chooses Skip, confirms an overwrite or chooses Quit; Edit,
\* Refresh, an unrecognized key and a declined confirmation keep the same
\* item under review.  With an operator who eventually resolves every item
\* the run ends: normally with every included item reviewed, at the first
\* Quit, or on an exception.
C16_LoopExitsAndTermination ==
    /\ [][/\ LeavesItem =>
                \/ LeftByNamedWay
                \/ pc = "while" /\ diff_only /\ item \in shown'
          /\ (pc = "getchar" /\ command' \in {"e", "r", "x"}) => item' = item
          /\ pc = "edit" => item' = item
          /\ (pc = "confirm" /\ since_decline' = "declined") => item' = item
          /\ (pc = "confirm" /\ command = "O" /\ pc' = "getchar") => item' = item
         ]_vars
    /\ [](pc = "done" => item = Len(templates) + 1 /\ loaded = IncludedItems)
    /\ <>(pc \in {"done", "quit", "raised"})

\* C16 witness: a run that prompted for two items, one of them edited,
\* ended normally after a Skip.
C16_Witness ==
    /\ pc = "done"
    /\ command = "s"
    /\ \E k \in prompted : sources[templates[k]] = <<"b">>
    /\ Cardinality(prompted) = 2

\* C17: no destination is shared between items: distinct included items
\* have distinct destination paths, and a write confirmed for one item
\* never changes the destination (hence the existing text and has_diff())
\* of another included item.
C17_DestinationsNotShared ==
    [][(pc = "confirm" /\ command = "o" /\ item \in written' \ written) =>
          \A k \in IncludedItems \ {item} :
             /\ OutputPath(templates[k]) # OutputPath(templates[item])
             /\ fs'[OutputPath(templates[k])] = fs[OutputPath(templates[k])]
      ]_vars

\* C18: whenever has_diff() is true for an item, the diff displayed for it
\* holds at least one Added or Removed row: the operator is never prompted
\* over a display that shows no change.
C18_PromptShowsAChange ==
    pc = "getchar" =>
        \E n \in 1..Len(screen.rows) :
           /\ screen.rows[n].kind = "row"
           /\ At(screen.rows[n].text, 0) \in {RED, GREEN}

\* The current item's template loads and renders, its destination can be
\* read, and has_diff() is true of them.
DiffWhenReached ==
    /\ pc = "while"
    /\ XBAD \notin Chars(sources[templates[item]])
    /\ XUNDEF \notin Chars(sources[templates[item]])
    /\ fs[OutputPath(templates[item])].perm # "locked"
    /\ ~NoDiffWhenReached

\* C19: with diff_only set, every included item whose has_diff() is true
\* has its diff displayed exactly once and then resolves; over the whole
\* run no prompt is issued, no editor is opened, no confirmation is asked
\* for and no file is written.
C19_DiffOnlyOnlyDisplays ==
    /\ [](diff_only =>
             /\ prompted = {} /\ written = {}
             /\ pc \notin {"getchar", "confirm", "edit", "quit"}
             /\ shown \subseteq loaded
             /\ pc = "done" => loaded = IncludedItems)
    /\ [][diff_only =>
             /\ diff_only' /\ fs' = fs /\ sources' = sources
             /\ DiffWhenReached =>
                   /\ item \notin shown /\ shown' = shown \cup {item}
                   /\ screen'.rows = PrettyPrint(Diff(ExistingNow, RenderedNow),
                                                 diff_context_lines)
                   /\ pc' = "for" /\ item' = item + 1
             /\ shown' # shown => DiffWhenReached
         ]_vars

\* C19 witness: a diff_only run over three included items ended with two
\* diffs displayed.
C19_Witness ==
    /\ diff_only
    /\ pc = "done"
    /\ loaded = {1, 2, 3}
    /\ shown = {1, 3}

====
